---- MODULE Spec2Model ----
(***************************************************************************)
(* A model of footprint.py (74hc595/footprint): the Pad and Pin shape      *)
(* classes with their keyword constructors, base inheritance and property  *)
(* setters, the silkscreen shapes, the Footprint container with its        *)
(* pin/pad auto-number counter and array placement, serialization and the  *)
(* `with` statement that writes the footprint to disk.                     *)
(*                                                                         *)
(* Python values are tagged records (Absent, None, numbers, strings,       *)
(* booleans) so that an attribute that was never set (AttributeError on    *)
(* read), an attribute that holds None (TypeError in arithmetic) and a     *)
(* number are three different things, as they are in the program.          *)
(* Lengths are integers (mils); every input width, height and diameter is  *)
(* even, so that the program's `v/2.` is exact in the model.               *)
(***************************************************************************)
EXTENDS Integers, Sequences, FiniteSets, TLC

VARIABLES
  heap,           \* every shape object constructed so far, by identity (1..)
  shapes,         \* Footprint.shapes: identities, in insertion order
  pinpadcounter,  \* Footprint.pinpadcounter
  mark_x,         \* Footprint.mark_x
  mark_y,         \* Footprint.mark_y
  name,           \* Footprint.name
  pc,             \* position of the script around the `with` block
  file,           \* the file <name>.fp on disk
  ret             \* the last call: its arguments and what it returned or raised

vars == <<heap, shapes, pinpadcounter, mark_x, mark_y, name, pc, file, ret>>

----------------------------------------------------------------------------
(* Python values *)

Absent == [t |-> "absent", v |-> 0, s |-> ""]
None == [t |-> "None", v |-> 0, s |-> ""]
I(n) == [t |-> "num", v |-> n, s |-> ""]
S(x) == [t |-> "str", v |-> 0, s |-> x]
B(b) == [t |-> "bool", v |-> IF b THEN 1 ELSE 0, s |-> ""]

IsNum(a) == a.t = "num"

\* v/2. on a number whose model value is even
Half(n) == n \div 2

\* between(a, b) with the default t = 0.5: a + (b-a)*t
between(a, b) == a + Half(b - a)

\* round(mil * 100) on an integral number of mils
mil_to_unit(mil) == mil * 100

----------------------------------------------------------------------------
(* Objects: a kind, the instance dictionary, and a polyline's segments *)

PadInheritable == <<"left", "width", "top", "height", "number", "name", "round">>
PadAllKeys == PadInheritable \o <<"right", "x", "bottom", "y">>
PinKeys == <<"x", "y", "hole", "diameter", "number", "name", "round">>

Range(seq) == {seq[i] : i \in DOMAIN seq}

AttrKeys ==
  {"name", "number", "round", "left", "width", "top", "height",
   "x", "y", "hole", "diameter", "x1", "y1", "x2", "y2", "thickness",
   "x_radius", "y_radius", "start_angle", "delta_angle"}

ArgKeys ==
  {"left", "width", "top", "height", "number", "name", "round",
   "right", "x", "bottom", "y", "hole", "diameter"}

NoAttrs == [k \in AttrKeys |-> Absent]
NoArgs == [k \in ArgKeys |-> Absent]

\* base: the identity of the shape an object was built from (0: none); the
\* program keeps no such link, the field only lets a property name the pair
NewObject(kind) == [kind |-> kind, attrs |-> NoAttrs, segments |-> <<>>, base |-> 0]

\* Shape.__init__: name and number start as the empty string
Shape__init__(kind) ==
  [NewObject(kind) EXCEPT !.attrs["name"] = S(""), !.attrs["number"] = S("")]

\* The outcome of an evaluation that may raise
Ok(o) == [err |-> "", obj |-> o]
Raise(e) == [err |-> e, obj |-> NewObject("")]
Val(a) == [err |-> "", val |-> a]
RaiseVal(e) == [err |-> e, val |-> Absent]

\* obj.key = value on a plain attribute
Store(o, key, value) == [o EXCEPT !.attrs[key] = value]

\* a - b, a + b as the interpreter evaluates them on two attribute reads:
\* a missing attribute raises before the arithmetic does
Arith(a, b, r) ==
  IF a = Absent \/ b = Absent THEN RaiseVal("AttributeError")
  ELSE IF ~IsNum(a) \/ ~IsNum(b) THEN RaiseVal("TypeError")
  ELSE Val(I(r))

----------------------------------------------------------------------------
(* class Pad *)

Pad_right(o) ==
  LET l == o.attrs["left"]
      w == o.attrs["width"]
  IN Arith(l, w, l.v + w.v)

Pad_right_set(o, value) ==
  LET l == o.attrs["left"]
      w == o.attrs["width"]
  IN IF w = Absent THEN Raise("AttributeError")
     ELSE IF w # None
       THEN IF IsNum(w) THEN Ok(Store(o, "left", I(value.v - w.v)))
            ELSE Raise("TypeError")
     ELSE IF l = Absent THEN Raise("AttributeError")
     ELSE IF IsNum(l) THEN Ok(Store(o, "width", I(value.v - l.v)))
     ELSE Raise("TypeError")

Pad_x(o) ==
  LET l == o.attrs["left"]
      r == Pad_right(o)
  IN IF l = Absent \/ r.err = "AttributeError" THEN RaiseVal("AttributeError")
     ELSE IF r.err # "" THEN r
     ELSE Val(I(between(l.v, r.val.v)))

\* a setter that takes the value for the right edge instead of the centre
Pad_x_set_edge(o, value) ==
  LET w == o.attrs["width"]
  IN IF w = Absent THEN Raise("AttributeError")
     ELSE IF ~IsNum(w) THEN Raise("TypeError")
     ELSE Ok(Store(o, "left", I(value.v - w.v)))

Pad_x_set(o, value) ==
  LET w == o.attrs["width"]
  IN IF w = Absent THEN Raise("AttributeError")
     ELSE IF ~IsNum(w) THEN Raise("TypeError")
     ELSE Ok(Store(o, "left", I(value.v - Half(w.v))))

Pad_bottom(o) ==
  LET t == o.attrs["top"]
      h == o.attrs["height"]
  IN Arith(t, h, t.v + h.v)

Pad_bottom_set(o, value) ==
  LET t == o.attrs["top"]
      h == o.attrs["height"]
  IN IF h = Absent THEN Raise("AttributeError")
     ELSE IF h # None
       THEN IF IsNum(h) THEN Ok(Store(o, "top", I(value.v - h.v)))
            ELSE Raise("TypeError")
     ELSE IF t = Absent THEN Raise("AttributeError")
     ELSE IF IsNum(t) THEN Ok(Store(o, "height", I(value.v - t.v)))
     ELSE Raise("TypeError")

Pad_y(o) ==
  LET t == o.attrs["top"]
      b == Pad_bottom(o)
  IN IF t = Absent \/ b.err = "AttributeError" THEN RaiseVal("AttributeError")
     ELSE IF b.err # "" THEN b
     ELSE Val(I(between(t.v, b.val.v)))

Pad_y_set(o, value) ==
  LET h == o.attrs["height"]
  IN IF h = Absent THEN Raise("AttributeError")
     ELSE IF ~IsNum(h) THEN Raise("TypeError")
     ELSE Ok(Store(o, "top", I(value.v - Half(h.v))))

\* setattr(pad, key, value): the four properties go through their setters
Pad_setattr(o, key, value) ==
  CASE key = "right" -> Pad_right_set(o, value)
    [] key = "x" -> Pad_x_set(o, value)
    [] key = "bottom" -> Pad_bottom_set(o, value)
    [] key = "y" -> Pad_y_set(o, value)
    [] OTHER -> Ok(Store(o, key, value))

\* pad.key read by the caller
Pad_getattr(o, key) ==
  CASE key = "right" -> Pad_right(o)
    [] key = "x" -> Pad_x(o)
    [] key = "bottom" -> Pad_bottom(o)
    [] key = "y" -> Pad_y(o)
    [] OTHER -> IF o.attrs[key] = Absent THEN RaiseVal("AttributeError")
                ELSE Val(o.attrs[key])

\* getattr(base, key, None) on a plain attribute
GetattrOrNone(b, key) == IF b.attrs[key] = Absent THEN None ELSE b.attrs[key]

\* a constructor that forgets the last inheritable key
RECURSIVE InheritButLast(_, _, _)
InheritButLast(o, b, keys) ==
  IF Len(keys) <= 1 THEN o
  ELSE InheritButLast(Store(o, Head(keys), IF b.attrs[Head(keys)] = Absent THEN None
                                           ELSE b.attrs[Head(keys)]),
                      b, Tail(keys))

\* for key in keys: setattr(self, key, getattr(base, key, None))
RECURSIVE Inherit(_, _, _)
Inherit(o, b, keys) ==
  IF keys = <<>> THEN o
  ELSE Inherit(Store(o, Head(keys), GetattrOrNone(b, Head(keys))), b, Tail(keys))

\* for key in all_keys: value = kwargs.get(key); if value is not None: setattr(...)
RECURSIVE Pad_apply(_, _, _)
Pad_apply(r, args, keys) ==
  IF keys = <<>> \/ r.err # "" THEN r
  ELSE Pad_apply(IF args[Head(keys)] = Absent \/ args[Head(keys)] = None THEN r
                 ELSE Pad_setattr(r.obj, Head(keys), args[Head(keys)]),
                 args, Tail(keys))

\* Pad(**kwargs): kw.base is the identity of the base pad (0: none)
Pad__init__(kw, h) ==
  LET o0 == Store(Shape__init__("Pad"), "round", B(FALSE))
      o1 == IF kw.base # 0 THEN Inherit(o0, h[kw.base], PadInheritable) ELSE o0
  IN Pad_apply(Ok([o1 EXCEPT !.base = kw.base]), kw.args, PadAllKeys)

----------------------------------------------------------------------------
(* class Pin *)

Pin_left(o) ==
  LET x == o.attrs["x"]
      d == o.attrs["diameter"]
  IN Arith(x, d, x.v - Half(d.v))

Pin_right(o) ==
  LET x == o.attrs["x"]
      d == o.attrs["diameter"]
  IN Arith(x, d, x.v + Half(d.v))

Pin_top(o) ==
  LET y == o.attrs["y"]
      d == o.attrs["diameter"]
  IN Arith(y, d, y.v - Half(d.v))

Pin_bottom(o) ==
  LET y == o.attrs["y"]
      d == o.attrs["diameter"]
  IN Arith(y, d, y.v + Half(d.v))

\* self.x = value -+ self.diameter/2. (axis is "x" or "y", sign +1 or -1)
Pin_edge_set(o, axis, value, sign) ==
  LET d == o.attrs["diameter"]
  IN IF d = Absent THEN Raise("AttributeError")
     ELSE IF ~IsNum(d) THEN Raise("TypeError")
     ELSE Ok(Store(o, axis, I(value.v + sign * Half(d.v))))

Pin_setattr(o, key, value) ==
  CASE key = "left" -> Pin_edge_set(o, "x", value, 1)
    [] key = "right" -> Pin_edge_set(o, "x", value, -1)
    [] key = "top" -> Pin_edge_set(o, "y", value, 1)
    [] key = "bottom" -> Pin_edge_set(o, "y", value, -1)
    [] OTHER -> Ok(Store(o, key, value))

Pin_getattr(o, key) ==
  CASE key = "left" -> Pin_left(o)
    [] key = "right" -> Pin_right(o)
    [] key = "top" -> Pin_top(o)
    [] key = "bottom" -> Pin_bottom(o)
    [] OTHER -> IF o.attrs[key] = Absent THEN RaiseVal("AttributeError")
                ELSE Val(o.attrs[key])

\* for key in keys: value = kwargs.get(key); if value is not None: setattr(...)
RECURSIVE Pin_apply(_, _, _)
Pin_apply(o, args, keys) ==
  IF keys = <<>> THEN o
  ELSE Pin_apply(IF args[Head(keys)] = Absent \/ args[Head(keys)] = None THEN o
                 ELSE Store(o, Head(keys), args[Head(keys)]),
                 args, Tail(keys))

\* Pin(**kwargs)
Pin__init__(kw, h) ==
  LET o0 == Store(Shape__init__("Pin"), "round", B(TRUE))
      o1 == IF kw.base # 0 THEN Inherit(o0, h[kw.base], PinKeys) ELSE o0
  IN Ok(Pin_apply([o1 EXCEPT !.base = kw.base], kw.args, PinKeys))

----------------------------------------------------------------------------
(* Silkscreen shapes.  None of them calls Shape.__init__, so they carry no *)
(* name and no number attribute.                                           *)

default_thickness == 10

ThicknessOr(th) == IF th = Absent THEN I(default_thickness) ELSE th

\* SilkLine(x1, y1, x2, y2, thickness=...)
SilkLine__init__(x1, y1, x2, y2, th) ==
  [NewObject("SilkLine") EXCEPT
     !.attrs["x1"] = I(x1), !.attrs["y1"] = I(y1),
     !.attrs["x2"] = I(x2), !.attrs["y2"] = I(y2),
     !.attrs["thickness"] = ThicknessOr(th)]

\* the loop of SilkPolyline.__init__: one segment per point after the first
Segments(points, th) ==
  [i \in 1..(IF Len(points) = 0 THEN 0 ELSE Len(points) - 1) |->
     <<points[i][1], points[i][2], points[i + 1][1], points[i + 1][2], th.v>>]

\* SilkPolyline(*points, thickness=..., closed=...)
SilkPolyline__init__(points, th, closed) ==
  LET t == ThicknessOr(th)
      segs == Segments(points, t)
      last == points[Len(points)]
  IN IF ~closed THEN Ok([NewObject("SilkPolyline") EXCEPT !.segments = segs])
     ELSE IF Len(points) = 0 THEN Raise("TypeError")
     ELSE IF Len(segs) = 0 THEN Raise("IndexError")
     ELSE Ok([NewObject("SilkPolyline") EXCEPT
                !.segments = Append(segs, <<last[1], last[2], segs[1][1], segs[1][2], t.v>>)])

\* kwargs.get(key): None when the key is not given
GetOrNone(a) == IF a = Absent THEN None ELSE a
GetOr(a, default) == IF a = Absent THEN default ELSE a

\* SilkArc.radius = value
SilkArc_radius_set(o, value) == Store(Store(o, "x_radius", value), "y_radius", value)

\* SilkArc(x, y, **kwargs); a is the record of keyword arguments
SilkArc__init__(x, y, a) ==
  LET o0 == [NewObject("SilkArc") EXCEPT
               !.attrs["x"] = I(x), !.attrs["y"] = I(y),
               !.attrs["x_radius"] = GetOrNone(a.x_radius),
               !.attrs["y_radius"] = GetOrNone(a.y_radius),
               !.attrs["start_angle"] = GetOr(a.start_angle, I(0)),
               !.attrs["delta_angle"] = GetOr(a.delta_angle, I(360)),
               !.attrs["thickness"] = ThicknessOr(a.thickness)]
      o1 == IF a.radius = Absent THEN o0 ELSE SilkArc_radius_set(o0, a.radius)
  IN IF a.diameter = Absent THEN o1
     ELSE SilkArc_radius_set(o1, I(Half(a.diameter.v)))

\* shape.key as the caller reads it, whatever the shape's class
Getattr(o, key) ==
  CASE o.kind = "Pad" -> Pad_getattr(o, key)
    [] o.kind = "Pin" -> Pin_getattr(o, key)
    [] OTHER -> IF o.attrs[key] = Absent THEN RaiseVal("AttributeError")
                ELSE Val(o.attrs[key])

\* shape.key = value, whatever the shape's class
Setattr(o, key, value) ==
  CASE o.kind = "Pad" -> Pad_setattr(o, key, value)
    [] o.kind = "Pin" -> Pin_setattr(o, key, value)
    [] OTHER -> Ok(Store(o, key, value))

----------------------------------------------------------------------------
(* Serialization.  Inside a class body the interpreter rewrites every      *)
(* identifier of the form __name to _Class__name, also where it names a    *)
(* module-level function; the lookup of the rewritten name then fails.     *)

\* the names bound at module level
ModuleGlobals ==
  {"sys", "os", "mm", "between", "__mil_to_unit", "Shape", "Pad", "Pin",
   "SilkLine", "SilkPolyline", "SilkArc", "Footprint"}

\* the identifiers of the source that start with two underscores and do not
\* end with two
PrivateIdents == {"__mil_to_unit", "__self", "__add_shapes"}

Mangle(cls, ident) ==
  IF ident \in PrivateIdents THEN "_" \o cls \o ident ELSE ident

\* whether a global name used inside class cls is bound when it is looked up
Resolves(cls, ident) == Mangle(cls, ident) \in ModuleGlobals

clearance_Pad == 1
clearance_Pin == 2
mask_offset == 1
text_scale == 100

Truthy(a) ==
  \/ a.t = "bool" /\ a.v = 1
  \/ a.t = "num" /\ a.v # 0
  \/ a.t = "str" /\ a.s # ""

Lines(ls) == [err |-> "", lines |-> ls]
RaiseLines(e) == [err |-> e, lines |-> <<>>]
Line(kind, nums, nm, number, flags) ==
  [kind |-> kind, nums |-> nums, name |-> nm, number |-> number, flags |-> flags]

\* the first attribute of keys, in reading order, whose read or use fails
RECURSIVE FirstBad(_, _)
FirstBad(o, keys) ==
  IF keys = <<>> THEN ""
  ELSE IF o.attrs[Head(keys)] = Absent THEN "AttributeError"
  ELSE IF ~IsNum(o.attrs[Head(keys)]) THEN "TypeError"
  ELSE FirstBad(o, Tail(keys))

\* Pad.pcb_repr(tx, ty): the pad as a line segment along its longer axis
Pad_pcb_repr(o, tx, ty) ==
  LET w == o.attrs["width"]
      h == o.attrs["height"]
      l == o.attrs["left"]
      t == o.attrs["top"]
      wide == w.v > h.v
      thickness == IF wide THEN h.v ELSE w.v
      cx == between(l.v, l.v + w.v)
      cy == between(t.v, t.v + h.v)
      x1 == IF wide THEN l.v + Half(thickness) ELSE cx
      y1 == IF wide THEN cy ELSE t.v + Half(thickness)
      x2 == IF wide THEN (l.v + w.v) - Half(thickness) ELSE cx
      y2 == IF wide THEN cy ELSE (t.v + h.v) - Half(thickness)
      mask == thickness + clearance_Pad
  IN IF w = Absent \/ h = Absent THEN RaiseLines("AttributeError")
     ELSE IF ~IsNum(w) \/ ~IsNum(h) THEN RaiseLines("TypeError")
     ELSE IF FirstBad(o, <<"left", "top">>) # ""
       THEN RaiseLines(FirstBad(o, <<"left", "top">>))
     ELSE IF ~Resolves("Pad", "__mil_to_unit") THEN RaiseLines("NameError")
     ELSE Lines(<<Line("Pad",
                       <<mil_to_unit(x1 + tx), mil_to_unit(y1 + ty),
                         mil_to_unit(x2 + tx), mil_to_unit(y2 + ty),
                         mil_to_unit(thickness), mil_to_unit(clearance_Pad),
                         mil_to_unit(mask)>>,
                       o.attrs["name"], o.attrs["number"],
                       IF Truthy(o.attrs["round"]) THEN 0 ELSE 256)>>)

\* Pin.pcb_repr(tx, ty)
Pin_pcb_repr(o, tx, ty) ==
  IF ~Resolves("Pin", "__mil_to_unit") THEN RaiseLines("NameError")
  ELSE IF FirstBad(o, <<"x", "y", "diameter", "hole">>) # ""
    THEN RaiseLines(FirstBad(o, <<"x", "y", "diameter", "hole">>))
  ELSE IF ~Resolves("Pin", "__self") THEN RaiseLines("NameError")
  ELSE Lines(<<Line("Pin",
                    <<mil_to_unit(o.attrs["x"].v + tx), mil_to_unit(o.attrs["y"].v + ty),
                      mil_to_unit(o.attrs["diameter"].v), mil_to_unit(clearance_Pin),
                      mil_to_unit(o.attrs["diameter"].v + mask_offset),
                      mil_to_unit(o.attrs["hole"].v)>>,
                    o.attrs["name"], o.attrs["number"],
                    IF Truthy(o.attrs["round"]) THEN 1 ELSE 257)>>)

\* SilkLine.pcb_repr(tx, ty) on one segment <<x1, y1, x2, y2, thickness>>
SilkLine_pcb_repr(seg, tx, ty) ==
  IF ~Resolves("SilkLine", "__mil_to_unit") THEN RaiseLines("NameError")
  ELSE Lines(<<Line("ElementLine",
                    <<mil_to_unit(seg[1] + tx), mil_to_unit(seg[2] + ty),
                      mil_to_unit(seg[3] + tx), mil_to_unit(seg[4] + ty),
                      mil_to_unit(seg[5])>>,
                    Absent, Absent, 0)>>)

\* "\n".join(s.pcb_repr(tx, ty) for s in self.segments)
RECURSIVE JoinSegments(_, _, _)
JoinSegments(segs, tx, ty) ==
  IF segs = <<>> THEN Lines(<<>>)
  ELSE LET r == SilkLine_pcb_repr(Head(segs), tx, ty)
           rest == JoinSegments(Tail(segs), tx, ty)
       IN IF r.err # "" THEN r
          ELSE IF rest.err # "" THEN rest
          ELSE Lines(r.lines \o rest.lines)

\* SilkArc.pcb_repr(tx, ty)
SilkArc_pcb_repr(o, tx, ty) ==
  IF ~Resolves("SilkArc", "__mil_to_unit") THEN RaiseLines("NameError")
  ELSE IF FirstBad(o, <<"x", "y", "x_radius", "y_radius">>) # ""
    THEN RaiseLines(FirstBad(o, <<"x", "y", "x_radius", "y_radius">>))
  ELSE Lines(<<Line("ElementArc",
                    <<mil_to_unit(o.attrs["x"].v + tx), mil_to_unit(o.attrs["y"].v + ty),
                      mil_to_unit(o.attrs["x_radius"].v), mil_to_unit(o.attrs["y_radius"].v),
                      o.attrs["start_angle"].v, o.attrs["delta_angle"].v,
                      mil_to_unit(o.attrs["thickness"].v)>>,
                    Absent, Absent, 0)>>)

\* s.pcb_repr(tx, ty), whatever the shape's class
pcb_repr(o, tx, ty) ==
  CASE o.kind = "Pad" -> Pad_pcb_repr(o, tx, ty)
    [] o.kind = "Pin" -> Pin_pcb_repr(o, tx, ty)
    [] o.kind = "SilkLine" ->
         SilkLine_pcb_repr(<<o.attrs["x1"].v, o.attrs["y1"].v, o.attrs["x2"].v,
                             o.attrs["y2"].v, o.attrs["thickness"].v>>, tx, ty)
    [] o.kind = "SilkPolyline" -> JoinSegments(o.segments, tx, ty)
    [] OTHER -> SilkArc_pcb_repr(o, tx, ty)

\* The text of a footprint: the Element header's numbers and one entry per
\* shape (a polyline's entry holds one line per segment)
Text(header, body) == [err |-> "", header |-> header, body |-> body]
RaiseText(e) == [err |-> e, header |-> <<>>, body |-> <<>>]
NoText == Text(<<>>, <<>>)

\* "\n".join(s.pcb_repr(-self.mark_x, -self.mark_y) for s in self.shapes)
RECURSIVE JoinShapes(_, _, _, _)
JoinShapes(h, ids, tx, ty) ==
  IF ids = <<>> THEN Text(<<>>, <<>>)
  ELSE LET r == pcb_repr(h[Head(ids)], tx, ty)
           rest == JoinShapes(h, Tail(ids), tx, ty)
       IN IF r.err # "" THEN RaiseText(r.err)
          ELSE IF rest.err # "" THEN rest
          ELSE Text(<<>>, <<r.lines>> \o rest.body)

\* Footprint.__str__
Footprint__str__(h, ids, mx, my) ==
  IF ~Resolves("Footprint", "__mil_to_unit") THEN RaiseText("NameError")
  ELSE IF ~IsNum(mx) \/ ~IsNum(my) THEN RaiseText("TypeError")
  ELSE LET b == JoinShapes(h, ids, 0 - mx.v, 0 - my.v)
       IN IF b.err # "" THEN b
          ELSE Text(<<mil_to_unit(mx.v), mil_to_unit(my.v), mil_to_unit(0),
                      mil_to_unit(0), 0, text_scale>>, b.body)

----------------------------------------------------------------------------
(* class Footprint.  The builder methods are functions of the footprint's  *)
(* state st = [heap, shapes, counter]; each returns the state it leaves    *)
(* and what it returned or raised.                                         *)

\* Keyword arguments: the base shape's identity (0: no base keyword), the
\* values by key, and the steps of an array call
NoStep == [given |-> FALSE, tuple |-> FALSE, vals |-> <<>>]
Scalar(n) == [given |-> TRUE, tuple |-> FALSE, vals |-> <<n>>]
Tuple(seq) == [given |-> TRUE, tuple |-> TRUE, vals |-> seq]
Kw(base, args) == [base |-> base, args |-> args, dx |-> NoStep, dy |-> NoStep]
NoKw == Kw(0, NoArgs)

State(h, ids, c) == [heap |-> h, shapes |-> ids, counter |-> c]
Added(st, id) == [st |-> st, err |-> "", id |-> id]
Failed(st, e) == [st |-> st, err |-> e, id |-> 0]

\* a builder that hands out the counter whenever no number is given, base or not
NumberAlwaysDefaulted(kw, counter) ==
  [kw EXCEPT !.args["number"] = IF kw.args["number"] = Absent THEN I(counter)
                                 ELSE kw.args["number"]]

\* if not "base" in kwargs: kwargs["number"] = kwargs.get("number", self.pinpadcounter)
NumberDefaulted(kw, counter) ==
  IF kw.base = 0
    THEN [kw EXCEPT !.args["number"] = GetOr(kw.args["number"], I(counter))]
    ELSE kw

\* a builder that counts only the shapes that took their number from the counter
AppendCountingAuto(st, o) ==
  [heap |-> Append(st.heap, o), shapes |-> Append(st.shapes, Len(st.heap) + 1),
   counter |-> IF o.attrs["number"] = I(st.counter) THEN st.counter + 1 ELSE st.counter]

\* self.shapes.append(shape); self.pinpadcounter += 1
AppendNumbered(st, o) ==
  State(Append(st.heap, o), Append(st.shapes, Len(st.heap) + 1), st.counter + 1)

\* Footprint.add_pad(**kwargs)
add_pad(kw, st) ==
  LET r == Pad__init__(NumberDefaulted(kw, st.counter), st.heap)
  IN IF r.err # "" THEN Failed(st, r.err)
     ELSE Added(AppendNumbered(st, r.obj), Len(st.heap) + 1)

\* Footprint.add_pin(**kwargs)
add_pin(kw, st) ==
  LET r == Pin__init__(NumberDefaulted(kw, st.counter), st.heap)
  IN IF r.err # "" THEN Failed(st, r.err)
     ELSE Added(AppendNumbered(st, r.obj), Len(st.heap) + 1)

\* a step that reads the tuple one place late
StepAtNext(d, i) ==
  IF ~d.given THEN 0
  ELSE IF ~d.tuple THEN d.vals[1]
  ELSE d.vals[((i + 1) % Len(d.vals)) + 1]

\* dx if not isinstance(dx, tuple) else dx[i % len(dx)]; kwargs.get("dx", 0)
StepAt(d, i) ==
  IF ~d.given THEN 0
  ELSE IF ~d.tuple THEN d.vals[1]
  ELSE d.vals[(i % Len(d.vals)) + 1]

\* a loop that never steps the number
SameNumber(number) == number

\* number += 1
NextNumber(number) == I(number.v + 1)

\* the loop of Footprint.__add_shapes, from index i on
RECURSIVE add_shapes_loop(_, _, _, _, _, _, _)
add_shapes_loop(i, count, kind, kw, number, st, added) ==
  IF i >= count THEN [st |-> st, err |-> "", ids |-> added]
  ELSE
    LET k == [kw EXCEPT !.args["number"] = number]
        r == IF kind = "Pad" THEN add_pad(k, st) ELSE add_pin(k, st)
        stop(e) == [st |-> r.st, err |-> e, ids |-> <<>>]
    IN IF r.err # "" THEN stop(r.err)
       ELSE IF kw.args["x"] = Absent THEN stop("KeyError")
       ELSE IF kw.dx.tuple /\ Len(kw.dx.vals) = 0 THEN stop("ZeroDivisionError")
       ELSE IF kw.args["y"] = Absent THEN stop("KeyError")
       ELSE IF kw.dy.tuple /\ Len(kw.dy.vals) = 0 THEN stop("ZeroDivisionError")
       ELSE IF ~IsNum(number) THEN stop("TypeError")
       ELSE add_shapes_loop(
              i + 1, count, kind,
              [k EXCEPT !.args["x"] = I(kw.args["x"].v + StepAt(kw.dx, i)),
                        !.args["y"] = I(kw.args["y"].v + StepAt(kw.dy, i))],
              NextNumber(number), r.st, Append(added, r.id))

\* Footprint.__add_shapes(count, fn, **kwargs)
add_shapes(count, kind, kw, st) ==
  add_shapes_loop(0, count, kind, kw,
                  GetOr(kw.args["number"], I(st.counter)), st, <<>>)

\* self.shapes.append(shape) for a silk shape
AppendSilk(st, o) ==
  State(Append(st.heap, o), Append(st.shapes, Len(st.heap) + 1), st.counter)

\* Footprint.add_line(x1, y1, x2, y2, thickness=...)
add_line(x1, y1, x2, y2, th, st) ==
  Added(AppendSilk(st, SilkLine__init__(x1, y1, x2, y2, th)), Len(st.heap) + 1)

\* Footprint.add_polyline(*points, thickness=..., closed=...)
add_polyline(points, th, closed, st) ==
  LET r == SilkPolyline__init__(points, th, closed)
  IN IF r.err # "" THEN Failed(st, r.err)
     ELSE Added(AppendSilk(st, r.obj), Len(st.heap) + 1)

\* Footprint.add_arc(x, y, **kwargs)
add_arc(x, y, a, st) ==
  Added(AppendSilk(st, SilkArc__init__(x, y, a)), Len(st.heap) + 1)

\* Footprint.mark(pin_or_pad): the two assignments, the second not reached
\* when the first read raises
mark(o, mx, my) ==
  LET rx == Getattr(o, "x")
      ry == Getattr(o, "y")
  IN IF rx.err # "" THEN [err |-> rx.err, x |-> mx, y |-> my]
     ELSE IF ry.err # "" THEN [err |-> ry.err, x |-> rx.val, y |-> my]
     ELSE [err |-> "", x |-> rx.val, y |-> ry.val]

\* a lookup that returns the latest match
RECURSIVE getitem_last(_, _, _)
getitem_last(number, h, ids) ==
  IF ids = <<>> THEN 0
  ELSE IF getitem_last(number, h, Tail(ids)) # 0 THEN getitem_last(number, h, Tail(ids))
  ELSE IF h[Head(ids)].attrs["number"] = number THEN Head(ids)
  ELSE 0

\* next(s for s in self.shapes if getattr(s, "number", None) == number),
\* None (0) on StopIteration
RECURSIVE getitem(_, _, _)
getitem(number, h, ids) ==
  IF ids = <<>> THEN 0
  ELSE IF GetattrOrNone(h[Head(ids)], "number") = number THEN Head(ids)
  ELSE getitem(number, h, Tail(ids))

\* The file on disk: whether it exists, what it holds, how often open() was
\* called on it and how often it was written to
File(exists, content, opens, writes) ==
  [exists |-> exists, content |-> content, opens |-> opens, writes |-> writes]
OldContent == [err |-> "", header |-> <<0>>, body |-> <<>>]
EmptyContent == NoText

\* Footprint.write(filename): open(filename, "w") creates or truncates the
\* file before str(self) is evaluated; io is the outcome of open()
write(f, text, io) ==
  IF io # "" THEN [file |-> [f EXCEPT !.opens = f.opens + 1], err |-> io]
  ELSE IF text.err # ""
    THEN [file |-> File(TRUE, EmptyContent, f.opens + 1, f.writes), err |-> text.err]
  ELSE [file |-> File(TRUE, text, f.opens + 1, f.writes + 1), err |-> ""]

\* Footprint.__exit__(type, value, traceback): type is "" for None
Footprint__exit__(type, nm, f, text, io) ==
  IF type = "" /\ nm # "" THEN write(f, text, io)
  ELSE [file |-> f, err |-> ""]

----------------------------------------------------------------------------
(* The state machine *)

\* The record of the last call
NoRet ==
  [op |-> "", kind |-> "", kw |-> NoKw, count |-> 0, target |-> 0, key |-> "",
   val |-> Absent, err |-> "", id |-> 0, ids |-> <<>>, out |-> NoText]

NoFile == File(FALSE, EmptyContent, 0, 0)

\* Footprint.__init__, inside a script that has not yet left its block
Init ==
  /\ heap = <<>>
  /\ shapes = <<>>
  /\ pinpadcounter = 1
  /\ mark_x = I(0)
  /\ mark_y = I(0)
  /\ name = "A"
  /\ pc = "body"
  /\ file = NoFile
  /\ ret = NoRet

FootprintVars == <<shapes, pinpadcounter, mark_x, mark_y, name, pc, file>>

\* the identities of the shapes of one class
OfKind(h, kind) == {i \in DOMAIN h : h[i].kind = kind}

(* Shapes constructed and assigned to on their own *)

MaxObjs == 2

\* p = Pad(**kwargs)
NewPad(kw) ==
  /\ pc = "body"
  /\ Len(heap) < MaxObjs
  /\ kw.base \in {0} \cup OfKind(heap, "Pad")
  /\ LET r == Pad__init__(kw, heap)
     IN /\ heap' = IF r.err = "" THEN Append(heap, r.obj) ELSE heap
        /\ ret' = [NoRet EXCEPT !.op = "Pad", !.kind = "Pad", !.kw = kw, !.err = r.err,
                                !.id = IF r.err = "" THEN Len(heap) + 1 ELSE 0]
  /\ UNCHANGED FootprintVars

\* p = Pin(**kwargs)
NewPin(kw) ==
  /\ pc = "body"
  /\ Len(heap) < MaxObjs
  /\ kw.base \in {0} \cup OfKind(heap, "Pin")
  /\ LET r == Pin__init__(kw, heap)
     IN /\ heap' = IF r.err = "" THEN Append(heap, r.obj) ELSE heap
        /\ ret' = [NoRet EXCEPT !.op = "Pin", !.kind = "Pin", !.kw = kw, !.err = r.err,
                                !.id = IF r.err = "" THEN Len(heap) + 1 ELSE 0]
  /\ UNCHANGED FootprintVars

\* shape.key = value, the script's last statement
Assign(id, key, value) ==
  /\ pc = "body"
  /\ id \in DOMAIN heap
  /\ LET r == Setattr(heap[id], key, value)
     IN /\ heap' = IF r.err = "" THEN [heap EXCEPT ![id] = r.obj] ELSE heap
        /\ ret' = [NoRet EXCEPT !.op = "setattr", !.kind = heap[id].kind, !.target = id,
                                !.key = key, !.val = value, !.err = r.err]
  /\ pc' = "done"
  /\ UNCHANGED <<shapes, pinpadcounter, mark_x, mark_y, name, file>>

\* Keyword arguments of the constructor calls
Args1(k1, v1) == (k1 :> v1) @@ NoArgs
Args2(k1, v1, k2, v2) == (k1 :> v1) @@ (k2 :> v2) @@ NoArgs
Merge(a, b) == [k \in ArgKeys |-> IF a[k] # Absent THEN a[k] ELSE b[k]]

XSpecs ==
  <<Args2("left", I(0), "width", I(4)),
    Args2("x", I(3), "width", I(4)),
    Args2("left", I(0), "right", I(6)),
    Args2("right", I(6), "width", I(4)),
    Args1("left", I(0)),
    NoArgs>>

YSpecs ==
  <<Args2("top", I(0), "height", I(2)),
    Args2("y", I(1), "height", I(2)),
    Args2("top", I(0), "bottom", I(4)),
    Args2("bottom", I(4), "height", I(2)),
    Args1("top", I(0)),
    NoArgs>>

Labels ==
  Merge(Args2("number", I(7), "name", S("A")), Args1("round", B(TRUE)))

\* without a base: every x-axis form with the first y-axis form, every
\* y-axis form with the first x-axis form, the same form on both axes
PadGeoms ==
  {Merge(XSpecs[i], YSpecs[j]) :
     <<i, j>> \in {p \in (DOMAIN XSpecs) \X (DOMAIN YSpecs) :
                     p[1] = 1 \/ p[2] = 1 \/ p[1] = p[2]}}

PadCtorArgs == PadGeoms \cup {Merge(XSpecs[1], Merge(YSpecs[1], Labels))}

\* the value an override or an assignment gives to a key
NewValue(key) ==
  CASE key = "left" -> I(2)
    [] key = "width" -> I(6)
    [] key = "top" -> I(2)
    [] key = "height" -> I(4)
    [] key = "number" -> I(9)
    [] key = "name" -> S("B")
    [] key = "round" -> B(TRUE)
    [] key = "right" -> I(10)
    [] key = "x" -> I(5)
    [] key = "bottom" -> I(8)
    [] key = "y" -> I(3)
    [] key = "hole" -> I(6)
    [] OTHER -> I(8)

\* with a base: nothing, one key, or the two edges of an axis
PadOverrides ==
  {NoArgs} \cup {Args1(k, NewValue(k)) : k \in Range(PadAllKeys)}
    \cup {Args2("left", I(2), "right", I(10)), Args2("top", I(2), "bottom", I(8))}

PinCtorArgs ==
  {Merge(Args2("x", I(0), "y", I(0)), Args2("hole", I(2), "diameter", I(4))),
   Merge(Merge(Args2("x", I(0), "y", I(0)), Args2("hole", I(2), "diameter", I(4))),
         Merge(Args2("number", I(7), "name", S("A")), Args1("round", B(FALSE)))),
   Args2("x", I(0), "y", I(0))}

PinOverrides ==
  {NoArgs} \cup {Args1(k, IF k = "round" THEN B(FALSE) ELSE NewValue(k)) :
                   k \in Range(PinKeys)}

PinAssignable == Range(PinKeys) \cup {"left", "right", "top", "bottom"}

NextShape ==
  \/ \E a \in PadCtorArgs : NewPad(Kw(0, a))
  \/ \E b \in DOMAIN heap, a \in PadOverrides : NewPad(Kw(b, a))
  \/ \E a \in PinCtorArgs : NewPin(Kw(0, a))
  \/ \E b \in DOMAIN heap, a \in PinOverrides : NewPin(Kw(b, a))
  \/ \E id \in OfKind(heap, "Pad"), k \in Range(PadAllKeys) : Assign(id, k, NewValue(k))
  \/ \E id \in OfKind(heap, "Pin"), k \in PinAssignable : Assign(id, k, NewValue(k))

SpecShape == Init /\ [][NextShape]_vars

----------------------------------------------------------------------------
(* The builder methods of a Footprint, called by the script *)

Here == State(heap, shapes, pinpadcounter)

\* what a builder call leaves in the footprint
Leaves(st) ==
  /\ heap' = st.heap
  /\ shapes' = st.shapes
  /\ pinpadcounter' = st.counter

\* the shapes of one class that the footprint holds
Held(kind) == {i \in Range(shapes) : heap[i].kind = kind}

\* f.add_pad(**kwargs)
AddPad(kw) ==
  /\ pc = "body"
  /\ kw.base \in {0} \cup Held("Pad")
  /\ LET r == add_pad(kw, Here)
     IN /\ Leaves(r.st)
        /\ ret' = [NoRet EXCEPT !.op = "add_pad", !.kind = "Pad", !.kw = kw,
                                !.err = r.err, !.id = r.id]
  /\ UNCHANGED <<mark_x, mark_y, name, pc, file>>

\* f.add_pin(**kwargs)
AddPin(kw) ==
  /\ pc = "body"
  /\ kw.base \in {0} \cup Held("Pin")
  /\ LET r == add_pin(kw, Here)
     IN /\ Leaves(r.st)
        /\ ret' = [NoRet EXCEPT !.op = "add_pin", !.kind = "Pin", !.kw = kw,
                                !.err = r.err, !.id = r.id]
  /\ UNCHANGED <<mark_x, mark_y, name, pc, file>>

\* f.add_pads(count, **kwargs)
AddPads(count, kw) ==
  /\ pc = "body"
  /\ kw.base \in {0} \cup Held("Pad")
  /\ LET r == add_shapes(count, "Pad", kw, Here)
     IN /\ Leaves(r.st)
        /\ ret' = [NoRet EXCEPT !.op = "add_pads", !.kind = "Pad", !.kw = kw,
                                !.count = count, !.err = r.err, !.ids = r.ids]
  /\ UNCHANGED <<mark_x, mark_y, name, pc, file>>

\* f.add_pins(count, **kwargs)
AddPins(count, kw) ==
  /\ pc = "body"
  /\ kw.base \in {0} \cup Held("Pin")
  /\ LET r == add_shapes(count, "Pin", kw, Here)
     IN /\ Leaves(r.st)
        /\ ret' = [NoRet EXCEPT !.op = "add_pins", !.kind = "Pin", !.kw = kw,
                                !.count = count, !.err = r.err, !.ids = r.ids]
  /\ UNCHANGED <<mark_x, mark_y, name, pc, file>>

\* f.add_line(x1, y1, x2, y2)
AddLine(x1, y1, x2, y2) ==
  /\ pc = "body"
  /\ LET r == add_line(x1, y1, x2, y2, Absent, Here)
     IN /\ Leaves(r.st)
        /\ ret' = [NoRet EXCEPT !.op = "add_line", !.kind = "SilkLine", !.id = r.id]
  /\ UNCHANGED <<mark_x, mark_y, name, pc, file>>

\* f.add_polyline(*points, closed=closed)
AddPolyline(points, closed) ==
  /\ pc = "body"
  /\ LET r == add_polyline(points, Absent, closed, Here)
     IN /\ Leaves(r.st)
        /\ ret' = [NoRet EXCEPT !.op = "add_polyline", !.kind = "SilkPolyline",
                                !.count = Len(points), !.val = B(closed),
                                !.err = r.err, !.id = r.id]
  /\ UNCHANGED <<mark_x, mark_y, name, pc, file>>

NoArcArgs ==
  [x_radius |-> Absent, y_radius |-> Absent, start_angle |-> Absent,
   delta_angle |-> Absent, thickness |-> Absent, radius |-> Absent,
   diameter |-> Absent]

\* f.add_arc(x, y, **kwargs)
AddArc(x, y, a) ==
  /\ pc = "body"
  /\ LET r == add_arc(x, y, a, Here)
     IN /\ Leaves(r.st)
        /\ ret' = [NoRet EXCEPT !.op = "add_arc", !.kind = "SilkArc", !.id = r.id]
  /\ UNCHANGED <<mark_x, mark_y, name, pc, file>>

\* f.mark(shape)
Mark(id) ==
  /\ pc = "body"
  /\ id \in Range(shapes)
  /\ LET r == mark(heap[id], mark_x, mark_y)
     IN /\ mark_x' = r.x
        /\ mark_y' = r.y
        /\ ret' = [NoRet EXCEPT !.op = "mark", !.target = id, !.err = r.err]
  /\ UNCHANGED <<heap, shapes, pinpadcounter, name, pc, file>>

\* f[number]
GetItem(number) ==
  /\ pc = "body"
  /\ ret' = [NoRet EXCEPT !.op = "getitem", !.val = number,
                          !.id = getitem(number, heap, shapes)]
  /\ UNCHANGED <<heap, shapes, pinpadcounter, mark_x, mark_y, name, pc, file>>

\* str(f)
Str ==
  /\ pc = "body"
  /\ LET t == Footprint__str__(heap, shapes, mark_x, mark_y)
     IN ret' = [NoRet EXCEPT !.op = "str", !.err = t.err, !.out = t]
  /\ UNCHANGED <<heap, shapes, pinpadcounter, mark_x, mark_y, name, pc, file>>

(* The scripts of Spec: any sequence of builder calls, lookups and marks *)

MaxShapes == 3

CentredPad == Merge(Args2("x", I(0), "y", I(0)), Args2("width", I(4), "height", I(2)))
RoundPin == Merge(Args2("x", I(0), "y", I(0)), Args2("hole", I(2), "diameter", I(4)))

\* numbers given explicitly: one that the counter also hands out, and the
\* empty string the examples give to mounting holes
ExplicitNumbers == {I(2), S("")}

NumberArgs == {NoArgs} \cup {Args1("number", n) : n \in ExplicitNumbers}

PadArgs == {Merge(CentredPad, n) : n \in NumberArgs} \cup {Merge(XSpecs[3], YSpecs[1])}

PinArgs == {Merge(RoundPin, n) : n \in NumberArgs}

DerivedArgs == {Args1("x", I(6)), Args2("x", I(6), "number", I(2))}

Queries == {I(2), S("")}

Fits(count) == Len(shapes) + count <= MaxShapes

Next ==
  \/ \E a \in PadArgs : Fits(1) /\ AddPad(Kw(0, a))
  \/ \E b \in Range(shapes), a \in DerivedArgs : Fits(1) /\ AddPad(Kw(b, a))
  \/ \E a \in PinArgs : Fits(1) /\ AddPin(Kw(0, a))
  \/ \E b \in Range(shapes), a \in DerivedArgs : Fits(1) /\ AddPin(Kw(b, a))
  \/ \E n \in 0..MaxShapes, a \in {NoArgs, Args1("number", I(2))} :
       Fits(n) /\ AddPads(n, [Kw(0, Merge(CentredPad, a)) EXCEPT !.dx = Scalar(6)])
  \/ \E n \in 0..MaxShapes, a \in {NoArgs, Args1("number", S(""))} :
       Fits(n) /\ AddPins(n, [Kw(0, Merge(RoundPin, a)) EXCEPT !.dy = Tuple(<<5, -5>>)])
  \/ Fits(1) /\ AddLine(0, 0, 10, 0)
  \/ \E closed \in BOOLEAN :
       Fits(1) /\ AddPolyline(IF closed THEN <<<<0, 0>>>> ELSE <<<<0, 0>>, <<10, 0>>>>, closed)
  \/ Fits(1) /\ AddArc(0, 0, [NoArcArgs EXCEPT !.diameter = I(8)])
  \/ \E id \in Range(shapes) : Mark(id)
  \/ \E q \in Queries : GetItem(q)

Spec == Init /\ [][Next]_vars

(* The scripts of SpecArray: arrays of pads and pins, after a single pin *)

MaxBefore == 1
MaxCount == 4

StepPairs ==
  {<<Scalar(10), Tuple(<<5, -5>>)>>,
   <<Tuple(<<2, 4>>), NoStep>>,
   <<Tuple(<<1, 2, 3>>), Scalar(-2)>>}

ArrayKw(base, args, steps) ==
  [Kw(base, args) EXCEPT !.dx = steps[1], !.dy = steps[2]]

ArrayNumbers == {NoArgs, Args1("number", I(7)), Args1("number", S(""))}

\* the arrays of the scripts: pads and pins with their sizes given, pins that
\* take theirs from a base, and pins without the x of the first element
PadArrays ==
  {ArrayKw(0, Merge(CentredPad, n), st) : n \in ArrayNumbers, st \in StepPairs}
    \cup {ArrayKw(0, Args2("x", I(0), "y", I(0)), <<Scalar(10), NoStep>>)}

PinArrays ==
  {ArrayKw(0, Merge(RoundPin, n), st) : n \in ArrayNumbers, st \in StepPairs}
    \cup {ArrayKw(0, Merge(Args1("y", I(0)), Args2("hole", I(2), "diameter", I(4))),
                  <<Scalar(10), NoStep>>)}

BasedPinArrays(b) ==
  {ArrayKw(b, Merge(Args2("x", I(1), "y", I(1)), n), <<Scalar(10), Tuple(<<5, -5>>)>>) :
     n \in {NoArgs, Args1("number", I(7))}}

\* an array is placed on a footprint that holds at most MaxBefore shapes
Early == Len(shapes) <= MaxBefore

NextArray ==
  \/ Len(shapes) < MaxBefore /\ AddPin(Kw(0, Merge(RoundPin, Args1("number", S("")))))
  \/ \E n \in 0..MaxCount, kw \in PadArrays : Early /\ AddPads(n, kw)
  \/ \E n \in 0..MaxCount, kw \in PinArrays : Early /\ AddPins(n, kw)
  \/ \E n \in 1..MaxCount, b \in Held("Pin") :
       \E kw \in BasedPinArrays(b) : Early /\ AddPins(n, kw)

SpecArray == Init /\ [][NextArray]_vars

(* The scripts of SpecWith: `with Footprint(name) as f:` around a body of   *)
(* builder calls, which completes or raises.                               *)

\* an exception leaves the body of the `with` statement
RaiseInBody(e) ==
  /\ pc = "body"
  /\ pc' = "raising"
  /\ ret' = [NoRet EXCEPT !.op = "raise", !.err = e]
  /\ UNCHANGED <<heap, shapes, pinpadcounter, mark_x, mark_y, name, file>>

\* the `with` statement calls f.__exit__; io is what open() would do.  The
\* record keeps the exception of the body in key, and in err the exception
\* the statement leaves to its caller: __exit__ returns None, so the body's
\* exception goes on, and so does one raised by write()
Exit(io) ==
  /\ pc \in {"body", "raising"}
  /\ LET type == IF pc = "raising" THEN ret.err ELSE ""
         r == Footprint__exit__(type, name, file,
                                Footprint__str__(heap, shapes, mark_x, mark_y), io)
     IN /\ file' = r.file
        /\ ret' = [NoRet EXCEPT !.op = "exit", !.key = type,
                                !.err = IF type # "" THEN type ELSE r.err]
  /\ pc' = "exited"
  /\ UNCHANGED <<heap, shapes, pinpadcounter, mark_x, mark_y, name>>

Names == {"A", ""}

InitWith ==
  /\ heap = <<>>
  /\ shapes = <<>>
  /\ pinpadcounter = 1
  /\ mark_x = I(0)
  /\ mark_y = I(0)
  /\ name \in Names
  /\ pc = "body"
  /\ file \in {NoFile, File(TRUE, OldContent, 0, 0)}
  /\ ret = NoRet

\* pads that are wide, tall and square, one of them off the origin, and one
\* whose width and height were never given
WithPadArgs ==
  {CentredPad,
   Merge(XSpecs[2], YSpecs[2]),
   Merge(Args2("x", I(0), "y", I(0)), Args2("width", I(2), "height", I(4))),
   Merge(Args2("x", I(2), "y", I(0)), Args2("width", I(2), "height", I(2))),
   Merge(XSpecs[5], YSpecs[5])}

NextWith ==
  \/ \E a \in WithPadArgs : Fits(1) /\ AddPad(Kw(0, a))
  \/ Fits(1) /\ AddPin(Kw(0, RoundPin))
  \/ \E id \in Range(shapes) : Mark(id)
  \/ Str
  \/ \E e \in {"ValueError"} \cup {ret.err} : e # "" /\ RaiseInBody(e)
  \/ \E io \in {"", "IOError"} : Exit(io)

SpecWith == InitWith /\ [][NextWith]_vars

(* The scripts of SpecPad: pads built from left, width, top and height, and *)
(* one assignment to a derived attribute                                   *)

PadBoxes ==
  {Merge(Args2("left", I(l), "width", I(w)), Args2("top", I(0), "height", I(h))) :
     l \in {-3, 2}, w \in {2, 4}, h \in {2, 6}}

DerivedKeys == {"right", "x", "bottom", "y"}

AssignedValues == {I(-1), I(5)}

NextPad ==
  \/ \E a \in PadBoxes : NewPad(Kw(0, a))
  \/ \E id \in OfKind(heap, "Pad"), k \in DerivedKeys, v \in AssignedValues : Assign(id, k, v)

SpecPad == Init /\ [][NextPad]_vars

(* The scripts of SpecSilk: silk shapes only, polylines of zero to three    *)
(* points, open and closed                                                 *)

Corners == <<<<0, 0>>, <<10, 0>>, <<10, 10>>>>

NextSilk ==
  \/ Fits(1) /\ AddLine(0, 0, 10, 0)
  \/ \E n \in 0..Len(Corners), closed \in BOOLEAN :
       Fits(1) /\ AddPolyline(SubSeq(Corners, 1, n), closed)
  \/ Fits(1) /\ AddArc(0, 0, [NoArcArgs EXCEPT !.diameter = I(8)])

SpecSilk == Init /\ [][NextSilk]_vars

----------------------------------------------------------------------------
(* Properties of the builder (Spec) *)

Numbered == {i \in DOMAIN shapes : heap[shapes[i]].kind \in {"Pad", "Pin"}}

\* C1: after any sequence of builder operations the auto-number counter is 1
\* plus the number of Pad and Pin shapes in the shape list, whether their
\* numbers were auto-assigned, explicit or inherited; silk shapes and mark do
\* not count.
C1_CounterCountsPadsAndPins == pinpadcounter = 1 + Cardinality(Numbered)

\* C1 witness: a mark was set on a footprint that holds a pad with an explicit
\* number, a shape derived from a base and a silk shape
C1_Witness ==
  /\ ret.op = "mark"
  /\ pinpadcounter = 3
  /\ \E i, j, k \in DOMAIN shapes :
       /\ heap[shapes[i]].kind = "Pad" /\ heap[shapes[i]].attrs["number"] = I(2)
       /\ i = 1
       /\ heap[shapes[j]].base # 0
       /\ heap[shapes[k]].kind \in {"SilkLine", "SilkPolyline", "SilkArc"}

\* C2: the shape a single add_pad or add_pin call returns carries the number
\* given explicitly, else the number of the base if a base is given, else the
\* value the counter had before the call; and it is the last element of the
\* shape list after the call.
C2_NumberRule ==
  ret'.op \in {"add_pad", "add_pin"} /\ ret'.err = "" =>
    LET kw == ret'.kw
    IN /\ heap'[ret'.id].attrs["number"] =
            IF kw.args["number"] # Absent THEN kw.args["number"]
            ELSE IF kw.base # 0 THEN heap[kw.base].attrs["number"]
            ELSE I(pinpadcounter)
       /\ shapes' = Append(shapes, ret'.id)
       /\ ret'.id \notin Range(shapes)

C2_NumberResolution == [][C2_NumberRule]_vars

\* C2 witness: a shape was added from a base without a number of its own, and
\* the number it inherited is not the one the counter would have handed out
C2_Witness ==
  /\ ret.op \in {"add_pad", "add_pin"}
  /\ ret.err = ""
  /\ ret.kw.base # 0
  /\ ret.kw.args["number"] = Absent
  /\ heap[ret.id].attrs["number"] # I(pinpadcounter - 1)

Matches(number) == {i \in DOMAIN shapes : heap[shapes[i]].attrs["number"] = number}

C10_Result ==
  ret.op = "getitem" =>
    IF Matches(ret.val) = {} THEN ret.id = 0
    ELSE \E i \in Matches(ret.val) :
           /\ ret.id = shapes[i]
           /\ \A j \in Matches(ret.val) : i <= j

C10_Frame ==
  ret'.op = "getitem" => UNCHANGED <<heap, shapes, pinpadcounter, mark_x, mark_y, name, file>>

\* C10: a lookup by number returns the earliest-appended shape whose number
\* equals the queried value, also when several shapes share it, and None when
\* no shape has it; it changes nothing in the footprint.
C10_Lookup == []C10_Result /\ [][C10_Frame]_vars

\* C10 witness: two shapes carry the queried number and the lookup returned
\* the earlier one
C10_Witness ==
  /\ ret.op = "getitem"
  /\ Cardinality(Matches(ret.val)) >= 2
  /\ ret.id # 0
  /\ \E i \in DOMAIN shapes : i > 1 /\ shapes[i] = ret.id

----------------------------------------------------------------------------
(* Properties of the shape constructors (SpecShape) *)

Given(args) == {k \in ArgKeys : args[k] # Absent}

InheritableOf(kind) == IF kind = "Pad" THEN Range(PadInheritable) ELSE Range(PinKeys)

\* the last call constructed a shape from a base and one overridden stored
\* attribute
DerivedWithOneOverride ==
  /\ ret.op \in {"Pad", "Pin"}
  /\ ret.kw.base # 0
  /\ Cardinality(Given(ret.kw.args)) = 1
  /\ Given(ret.kw.args) \subseteq InheritableOf(ret.kind)

C5_Inherited ==
  DerivedWithOneOverride =>
    /\ ret.err = ""
    /\ \A k \in InheritableOf(ret.kind) :
         LET new == heap[ret.id].attrs[k]
             old == heap[ret.kw.base].attrs[k]
         IN IF k \in Given(ret.kw.args) THEN new = ret.kw.args[k]
            ELSE IF old = Absent THEN new = None
            ELSE new = old

C5_NoLiveLink ==
  ret'.op = "setattr" =>
    /\ Len(heap') = Len(heap)
    /\ \A j \in DOMAIN heap : j # ret'.target => heap'[j] = heap[j]

\* C5: a Pad or Pin constructed with base=p1 and one overridden stored
\* attribute holds, in every other inheritable stored attribute, the value p1
\* had when it was constructed (None where p1 has no such attribute), and the
\* copy is no live link: an assignment to an attribute of one shape changes no
\* other shape, so neither the shapes derived from it nor its base.
C5_BaseCopy == []C5_Inherited /\ [][C5_NoLiveLink]_vars

\* C5 witness: an attribute of a base was assigned to after a shape had been
\* derived from it with one override, and the two now differ in it
C5_Witness ==
  /\ ret.op = "setattr"
  /\ ret.err = ""
  /\ \E d \in DOMAIN heap :
       /\ heap[d].base = ret.target
       /\ ret.key \in InheritableOf(heap[d].kind)
       /\ heap[d].attrs[ret.key] # heap[ret.target].attrs[ret.key]

\* C6: constructing a Pad with no base from exactly left=L and right=R on the
\* x axis succeeds with left = L and width = R - L, and from exactly top=T and
\* bottom=B on the y axis with top = T and height = B - T.
C6_EdgesGiveSize ==
  ret.op = "Pad" /\ ret.kw.base = 0 =>
    LET a == ret.kw.args
        g == Given(ret.kw.args)
    IN /\ g \cap {"left", "width", "right", "x"} = {"left", "right"}
          /\ g \cap {"top", "height", "bottom", "y"} = {"top", "height"}
          => /\ ret.err = ""
             /\ heap[ret.id].attrs["left"] = a["left"]
             /\ heap[ret.id].attrs["width"] = I(a["right"].v - a["left"].v)
       /\ g \cap {"top", "height", "bottom", "y"} = {"top", "bottom"}
          /\ g \cap {"left", "width", "right", "x"} = {"left", "width"}
          => /\ ret.err = ""
             /\ heap[ret.id].attrs["top"] = a["top"]
             /\ heap[ret.id].attrs["height"] = I(a["bottom"].v - a["top"].v)

----------------------------------------------------------------------------
(* Properties of array placement (SpecArray) *)

IsArrayCall(r) == r.op \in {"add_pads", "add_pins"}

\* the shapes an array call returned are the ones it appended, in order
AppendedInOrder ==
  /\ Len(ret'.ids) = ret'.count
  /\ shapes' = shapes \o ret'.ids
  /\ \A i \in DOMAIN ret'.ids : heap'[ret'.ids[i]].kind = ret'.kind

C3_SameNumber ==
  IsArrayCall(ret') /\ ret'.kw.args["number"] # Absent /\ ret'.err = "" =>
    /\ AppendedInOrder
    /\ \A i \in DOMAIN ret'.ids :
         heap'[ret'.ids[i]].attrs["number"] = ret'.kw.args["number"]
    /\ pinpadcounter' = pinpadcounter + ret'.count

\* C3 as claimed: with an explicit number N every placed shape carries N, and
\* the counter grows by count.
C3_Claimed == [][C3_SameNumber]_vars

C3_Consecutive ==
  IsArrayCall(ret') /\ IsNum(ret'.kw.args["number"]) /\ ret'.err = "" =>
    /\ AppendedInOrder
    /\ \A i \in DOMAIN ret'.ids :
         heap'[ret'.ids[i]].attrs["number"] = I(ret'.kw.args["number"].v + i - 1)
    /\ pinpadcounter' = pinpadcounter + ret'.count

\* C3 as amended: when add_pads or add_pins is called with count elements and
\* an explicit integer number N and returns, the i-th placed shape (0-based)
\* carries N + i, and the counter is larger by exactly count than before.
C3_ExplicitNumberArray == [][C3_Consecutive]_vars

\* C3 witness: an array of at least two shapes was placed with an explicit
\* integer number, on a footprint whose counter that number is not
C3_Witness ==
  /\ IsArrayCall(ret)
  /\ ret.err = ""
  /\ IsNum(ret.kw.args["number"])
  /\ ret.count >= 2
  /\ pinpadcounter - ret.count # ret.kw.args["number"].v

\* the step the claim names after element j: the scalar, or element j mod 2
\* of a 2-element tuple
ClaimedStep(d, j) ==
  IF ~d.given THEN 0
  ELSE IF ~d.tuple THEN d.vals[1]
  ELSE IF j % 2 = 0 THEN d.vals[1] ELSE d.vals[2]

RECURSIVE StepsBefore(_, _)
StepsBefore(d, i) == IF i = 0 THEN 0 ELSE StepsBefore(d, i - 1) + ClaimedStep(d, i - 1)

ScalarOrPair(d) == d.tuple => Len(d.vals) = 2

\* an array call as C4 describes it: the first centre given, no number, steps
\* that are scalars or pairs, and the size of the shapes given or inherited
PlainArrayCall(r) ==
  /\ IsArrayCall(r)
  /\ r.kw.args["number"] = Absent
  /\ r.kw.args["x"] # Absent /\ r.kw.args["y"] # Absent
  /\ ScalarOrPair(r.kw.dx) /\ ScalarOrPair(r.kw.dy)
  /\ \/ r.kind = "Pin"
     \/ r.kw.args["width"] # Absent /\ r.kw.args["height"] # Absent

C4_Placement ==
  PlainArrayCall(ret') =>
    /\ ret'.err = ""
    /\ AppendedInOrder
    /\ \A i \in DOMAIN ret'.ids :
         LET o == heap'[ret'.ids[i]]
         IN /\ Getattr(o, "x") = Val(I(ret'.kw.args["x"].v + StepsBefore(ret'.kw.dx, i - 1)))
            /\ Getattr(o, "y") = Val(I(ret'.kw.args["y"].v + StepsBefore(ret'.kw.dy, i - 1)))
            /\ o.attrs["number"] = I(pinpadcounter + i - 1)

\* C4: add_pads/add_pins(count, x=x0, y=y0, dx, dy) without a number appends
\* exactly count shapes in order; element i is centred at x0 plus the x steps
\* taken after elements 0..i-1 and y0 plus the y steps, the step after element
\* j being the scalar or element j mod 2 of a pair; element i carries number
\* c + i, c being the counter before the call.
C4_ArrayPlacement == [][C4_Placement]_vars

\* C4 witness: four shapes were placed with a pair as a step, on a footprint
\* whose counter was past 1
C4_Witness ==
  /\ PlainArrayCall(ret)
  /\ ret.count >= 4
  /\ ret.kw.dy.tuple \/ ret.kw.dx.tuple
  /\ pinpadcounter - ret.count > 1

----------------------------------------------------------------------------
(* Properties of serialization and of the `with` statement (SpecWith) *)

Serialized == Footprint__str__(heap, shapes, mark_x, mark_y)

\* C7: the footprint is serialized and written to <name>.fp exactly once when
\* the block completes without raising; when the block raises, no write is
\* attempted and the block's error reaches the caller.
C7_WrittenOnce ==
  pc = "exited" /\ name # "" /\ ret.err # "IOError" =>
    IF ret.key = ""
      THEN /\ file.opens = 1
           /\ file.writes = 1
           /\ file.exists
           /\ file.content = Serialized
           /\ file.content.err = ""
      ELSE /\ file.opens = 0
           /\ file.writes = 0
           /\ ret.err = ret.key

C8_Untouched ==
  pc' = "exited" /\ ret'.err # "" =>
    /\ file'.exists = file.exists
    /\ file'.content = file.content

\* C8: if an error occurs before serialization completes, the output file is
\* not created, and an existing file keeps its content: no empty or partial
\* file is left behind.
C8_NoPartialFile == [][C8_Untouched]_vars

ResolvedPad(o) ==
  /\ o.kind = "Pad"
  /\ \A k \in {"left", "width", "top", "height"} : IsNum(o.attrs[k])

\* C9: for a footprint holding one fully resolved Pad on which mark was
\* called, the serialized Pad record starts with the coordinates (0, 0),
\* whatever the pad's width and height.
C9_MarkedPadAtOrigin ==
  /\ ret.op = "str"
  /\ Len(shapes) = 1
  /\ ResolvedPad(heap[shapes[1]])
  /\ Val(mark_x) = Pad_x(heap[shapes[1]])
  /\ Val(mark_y) = Pad_y(heap[shapes[1]])
  => /\ ret.err = ""
     /\ Len(ret.out.body) = 1
     /\ Len(ret.out.body[1]) = 1
     /\ ret.out.body[1][1].nums[1] = 0
     /\ ret.out.body[1][1].nums[2] = 0

----------------------------------------------------------------------------
(* Properties of a pad's derived attributes (SpecPad) *)

C11_Reads ==
  \A id \in OfKind(heap, "Pad") :
    LET o == heap[id]
        l == o.attrs["left"].v
        w == o.attrs["width"].v
        t == o.attrs["top"].v
        h == o.attrs["height"].v
    IN ResolvedPad(o) =>
         /\ Pad_getattr(o, "right") = Val(I(l + w))
         /\ Pad_getattr(o, "bottom") = Val(I(t + h))
         /\ Pad_getattr(o, "x").err = ""
         /\ 2 * Pad_getattr(o, "x").val.v = l + (l + w)
         /\ Pad_getattr(o, "y").err = ""
         /\ 2 * Pad_getattr(o, "y").val.v = t + (t + h)

C11_Assign ==
  ret'.op = "setattr" /\ ret'.key \in DerivedKeys /\ ResolvedPad(heap[ret'.target]) =>
    LET o == heap[ret'.target]
        n == heap'[ret'.target]
    IN /\ ret'.err = ""
       /\ n.attrs["width"] = o.attrs["width"]
       /\ n.attrs["height"] = o.attrs["height"]
       /\ Pad_getattr(n, ret'.key) = Val(ret'.val)
       /\ ret'.key = "x" =>
            n.attrs["left"].v - o.attrs["left"].v = Pad_right(n).val.v - Pad_right(o).val.v

\* C11: a pad built from left, width, top and height reads back right =
\* left + width, bottom = top + height, x and y as the midpoints of its edges;
\* assigning v to x, right, y or bottom of such a pad leaves width and height
\* unchanged and makes that attribute read back as v, and setting x moves
\* left and right by the same amount.
C11_DerivedAttributes == []C11_Reads /\ [][C11_Assign]_vars

\* C11 witness: x was assigned on a pad built from its box, and the pad's left
\* edge is no longer one a constructor call gave
C11_Witness ==
  /\ ret.op = "setattr"
  /\ ret.key = "x"
  /\ ret.err = ""
  /\ ResolvedPad(heap[ret.target])
  /\ Pad_x(heap[ret.target]) = Val(ret.val)
  /\ heap[ret.target].attrs["left"].v \notin {-3, 2}

----------------------------------------------------------------------------
(* Properties of polylines (SpecSilk) *)

C12_Rejected ==
  ret'.op = "add_polyline" /\ ret'.count < 2 =>
    /\ ret'.err # ""
    /\ ret'.id = 0
    /\ shapes' = shapes

\* C12: a polyline built from fewer than 2 points, closed or not, is rejected
\* with an error, and add_polyline then appends nothing to the shape list.
C12_FewPointsRejected == [][C12_Rejected]_vars

----------------------------------------------------------------------------
(* Properties of a pad built from a base with edge keywords (SpecShape) *)

EdgeKeys == {"left", "right", "top", "bottom"}

C13_Honoured ==
  ret'.op = "Pad" /\ ret'.err = "" /\ ret'.kw.base # 0 =>
    LET args == ret'.kw.args
        n == heap'[ret'.id]
    IN /\ \A k \in EdgeKeys \cap Given(args) : Pad_getattr(n, k) = Val(args[k])
       /\ {"left", "right"} \subseteq Given(args) =>
            n.attrs["width"] = I(args["right"].v - args["left"].v)
       /\ {"top", "bottom"} \subseteq Given(args) =>
            n.attrs["height"] = I(args["bottom"].v - args["top"].v)

\* C13: every edge keyword given to Pad is honoured in the constructed pad,
\* also when a base is given: Pad(base=b, left=L, right=R) has left = L,
\* right = R and width = R - L, Pad(base=b, top=T, bottom=B) has top = T and
\* bottom = B; only what the keywords leave out comes from the base.
C13_EdgeKeywordsHonoured == [][C13_Honoured]_vars

====
